---- MODULE Spec2Model ----
(***************************************************************************)
(* Model of lib/mqtt-client/client.js: the MQTT Client that forwards       *)
(* turtle status updates to the TurtleManager.                             *)
(*                                                                         *)
(* Strings that the code inspects character by character (topics, turtle   *)
(* ids) are sequences of one-character strings.  JavaScript values are     *)
(* records with a "kind" field.                                            *)
(***************************************************************************)
EXTENDS Naturals, Integers, Sequences, FiniteSets, TLC

VARIABLES
    connectP,      \* the promise of this.client.connect(...)
    subscribeP,    \* the promise of this.client.subscribe(...)
    offlineFired,  \* this.client.onOffline has resolved
    runP,          \* where run() stands
    sequential,    \* the transport awaits a turtle's handler before the next call
    budget,        \* statusHandler calls still to come
    invocations,   \* the calls of statusHandler, in call order
    calls,         \* the calls made on this.turtles, in call order
    applied,       \* the registry operations that took effect, in that order
    registry       \* the TurtleManager's turtles and their status

vars == <<connectP, subscribeP, offlineFired, runP,
          sequential, budget, invocations, calls, applied, registry>>

lifecycleVars == <<connectP, subscribeP, offlineFired, runP>>

handlerVars == <<invocations, calls, applied, registry, budget>>

-----------------------------------------------------------------------------
(* Bounds *)

\* Topics are built from at most MaxPieces pieces.
MaxPieces == 5

\* Inventories have at most MaxInv slots.
MaxInv == 2

\* Messages the transport delivers in one run of the client.
MaxMsgs == 2

-----------------------------------------------------------------------------
(* Strings *)

Slash == <<"/">>

StatusWord == <<"s", "t", "a", "t", "u", "s">>

\* The literal "/status" of the regular expression and of the subscription.
StatusSuffix == Slash \o StatusWord

\* options.baseTopic ("quayos/turtles" by default: two levels), shortened.
baseTopic == <<"q", "/", "t">>

TopicPieces == {Slash, StatusWord, baseTopic, <<"x">>}

RECURSIVE Flatten(_)
Flatten(ps) == IF ps = <<>> THEN <<>> ELSE Head(ps) \o Flatten(Tail(ps))

\* Every string topic the handler may be called with directly.
AllTopics == {Flatten(ps) : ps \in UNION {[1..n -> TopicPieces] : n \in 1..MaxPieces}}

\* Turtle ids used by the turtles that publish through the broker.
DeviceIds == {<<"x">>, StatusWord}

\* `${this.baseTopic}/+/status` as a concrete topic for one turtle.
StatusTopic(id) == baseTopic \o Slash \o id \o StatusSuffix

\* MQTT's + wildcard matches exactly one non-empty level.
MatchesSubscription(topic) ==
    \E n \in 1..Len(topic) :
        /\ Len(topic) = Len(baseTopic) + 1 + n + Len(StatusSuffix)
        /\ \A k \in 1..n : topic[Len(baseTopic) + 1 + k] # "/"
        /\ topic = StatusTopic(SubSeq(topic, Len(baseTopic) + 2, Len(baseTopic) + 1 + n))

-----------------------------------------------------------------------------
(* topic.match(/([^/]+)\/status$/) *)

NoMatch == [matched |-> FALSE, id |-> <<>>]

\* The start of the run of non-"/" characters that ends at position j.
RunStart(topic, j) ==
    LET slashes == {k \in 1..j : topic[k] = "/"}
    IN  IF slashes = {} THEN 1 ELSE 1 + CHOOSE k \in slashes : \A l \in slashes : l <= k

\* All (start, end) pairs of a capture [^/]{minRun,} followed by "/status",
\* at the end of the input when anchored.  The engine takes the leftmost
\* start and, the quantifier being greedy, the longest capture from there.
RegexMatch(topic, minRun, anchored) ==
    LET n == Len(topic)
        s == Len(StatusSuffix)
        ends == {j \in 0..(n - s) :
                    /\ SubSeq(topic, j + 1, j + s) = StatusSuffix
                    /\ (anchored => j + s = n)}
        cands == UNION {{<<i, j>> : i \in RunStart(topic, j)..(j + 1 - minRun)} : j \in ends}
    IN  IF cands = {} THEN NoMatch
        ELSE LET i == CHOOSE a \in {p[1] : p \in cands} :
                        \A b \in {p[1] : p \in cands} : a <= b
                 js == {p[2] : p \in {q \in cands : q[1] = i}}
                 j == CHOOSE a \in js : \A b \in js : a >= b
             IN  [matched |-> TRUE, id |-> SubSeq(topic, i, j)]

\* Mutation: ([^/]*)\/status$ , an empty segment is accepted.
TopicMatchStar(topic) == RegexMatch(topic, 0, TRUE)

\* Mutation: ([^/])\/status$ , the capture is one character.
TopicMatchOneChar(topic) ==
    LET m == RegexMatch(topic, 1, TRUE)
    IN  IF m.matched THEN [m EXCEPT !.id = <<m.id[Len(m.id)]>>] ELSE m

TopicMatch(topic) == RegexMatch(topic, 1, TRUE)

-----------------------------------------------------------------------------
(* JavaScript values *)

\* Values a registry operation may throw or reject with.
ErrVals == {"Error", "undefined"}

Returns == [ok |-> TRUE, err |-> "none"]

Outcomes == {Returns} \cup {[ok |-> FALSE, err |-> e] : e \in ErrVals}

\* err.stack throws a TypeError when err is null or undefined.
IsNullish(err) == err = "undefined"

\* Inventory slots: a description object, two arrays, null.
SlotVals == {"{axe}", "[1,2]", "[]", "null"}

\* Array.isArray(slot)
IsArray(slot) == slot \in {"[1,2]", "[]"}

NoInv == [kind |-> "undefined", items |-> <<>>]

NumInv == [kind |-> "number", items |-> <<>>]

Arr(items) == [kind |-> "array", items |-> items]

Inventories ==
    {NoInv, NumInv} \cup {Arr(s) : s \in UNION {[1..n -> SlotVals] : n \in 0..MaxInv}}

\* message.online: booleans, a missing field, a truthy and a falsy number.
OnlineVals == {"true", "false", "undefined", "1", "0"}

Null == [kind |-> "null", online |-> "undefined", inventory |-> NoInv]

Undefined == [kind |-> "undefined", online |-> "undefined", inventory |-> NoInv]

NoArg == [kind |-> "none", online |-> "undefined", inventory |-> NoInv]

Obj(on, inv) == [kind |-> "object", online |-> on, inventory |-> inv]

AllPayloads == {Null, Undefined} \cup {Obj(on, inv) : on \in OnlineVals, inv \in Inventories}

\* The payloads the turtles of the model publish: a removal, a status with an
\* array slot, a status without inventory.
CorePayloads == {Null, Obj("true", Arr(<<"{axe}", "[1,2]">>)), Obj("true", NoInv)}

CoreTopics == {StatusTopic(<<"x">>), <<"x">> \o Slash \o baseTopic}

\* The (message, topic) pairs statusHandler is called with directly.
HandlerInputs == (CorePayloads \X AllTopics) \cup (AllPayloads \X CoreTopics)

-----------------------------------------------------------------------------
(* statusHandler, line by line *)

\* Mutation: message === undefined
IsNullUndefined(message) == message.kind = "undefined"

\* message === null
IsNull(message) == message.kind = "null"

\* Mutation: message.online === true
TruthyStrict(v) == v = "true"

\* if (message.online): ToBoolean
Truthy(v) == v \in {"true", "1"}

\* message.inventory.map exists only on arrays.
HasMap(inv) == inv.kind = "array"

\* Mutation: the test is inverted, slot => Array.isArray(slot) ? slot : null
SanitizeSlotInverted(slot) == IF IsArray(slot) THEN slot ELSE "null"

\* slot => Array.isArray(slot) ? null : slot
SanitizeSlot(slot) == IF IsArray(slot) THEN "null" ELSE slot

\* message.inventory.map(...)
Sanitize(inv) == Arr([k \in 1..Len(inv.items) |-> SanitizeSlot(inv.items[k])])

\* The message after lines 83-85, for a message on which they do not throw.
SanitizedMessage(message) ==
    IF Truthy(message.online)
    THEN [message EXCEPT !.inventory = Sanitize(message.inventory)]
    ELSE message

\* Mutation: the handler validates the inventory whatever message.online is.
SanitizeThrowsValidating(message) ==
    \/ message.kind = "undefined"
    \/ ~HasMap(message.inventory)

\* Lines 83-85 throw a TypeError: message is undefined, or message.online is
\* truthy and message.inventory has no map method.
SanitizeThrows(message) ==
    \/ message.kind = "undefined"
    \/ Truthy(message.online) /\ ~HasMap(message.inventory)

\* Mutation: the update is not awaited.
AwaitedNone(op) == FALSE

\* Mutation: the delete is awaited too.
AwaitedAll(op) == TRUE

\* Line 86 awaits updateStatus; line 81 does not await deleteTurtle.
Awaited(op) == op = "updateStatus"

\* catch (err) { log.warn(..., { err: err.stack }) }: the handler resolves,
\* unless evaluating err.stack throws, which rejects the handler's promise.
CatchOutcome(err) == IF IsNullish(err) THEN "rejected" ELSE "resolved"

Call(op, id, arg, inv, status, err) ==
    [op |-> op, id |-> id, arg |-> arg, inv |-> inv, status |-> status, err |-> err]

TypeError == [calls |-> <<>>, thrown |-> TRUE, err |-> "Error", awaits |-> 0]

\* The try block (lines 80-87) of invocation n up to its first suspension or
\* its exit: the registry calls it makes, whether it throws, and the call it
\* is suspended on.  base is the number of calls made before.
TryBlock(message, turtleId, n, base, delOut, getOut, updOut) ==
    IF IsNull(message)
    THEN LET st == IF ~delOut.ok THEN "threw"
                   ELSE IF Awaited("deleteTurtle") THEN "pending" ELSE "returned"
         IN  [calls |-> <<Call("deleteTurtle", turtleId, NoArg, n, st, delOut.err)>>,
              thrown |-> ~delOut.ok, err |-> delOut.err,
              awaits |-> IF st = "pending" THEN base + 1 ELSE 0]
    ELSE IF SanitizeThrows(message) THEN TypeError
    ELSE LET msg == SanitizedMessage(message)
             get == Call("getTurtle", turtleId, NoArg, n,
                         IF getOut.ok THEN "returned" ELSE "threw", getOut.err)
             upd == Call("updateStatus", turtleId, msg, n,
                         IF updOut.ok THEN "pending" ELSE "threw", updOut.err)
         IN  IF ~getOut.ok
             THEN [calls |-> <<get>>, thrown |-> TRUE, err |-> getOut.err, awaits |-> 0]
             ELSE IF ~updOut.ok
             THEN [calls |-> <<get, upd>>, thrown |-> TRUE, err |-> updOut.err,
                   awaits |-> 0]
             ELSE [calls |-> <<get, upd>>, thrown |-> FALSE, err |-> "none",
                   awaits |-> IF Awaited("updateStatus") THEN base + 2 ELSE 0]

-----------------------------------------------------------------------------
(* The TurtleManager, as the client uses it *)

\* The status of a turtle that getTurtle has just created.
Fresh == [kind |-> "fresh", online |-> "undefined", inventory |-> NoInv]

Without(reg, id) == [x \in (DOMAIN reg) \ {id} |-> reg[x]]

With(reg, id, status) == [x \in (DOMAIN reg) \cup {id} |-> IF x = id THEN status ELSE reg[x]]

\* The registry after a call that returned or threw synchronously.
RegistryAfter(reg, c) ==
    IF c.op = "deleteTurtle" /\ c.status # "threw" THEN Without(reg, c.id)
    ELSE IF c.op = "getTurtle" /\ c.status = "returned" /\ c.id \notin DOMAIN reg
    THEN With(reg, c.id, Fresh)
    ELSE reg

RECURSIVE RegistryAfterAll(_, _)
RegistryAfterAll(reg, cs) ==
    IF cs = <<>> THEN reg ELSE RegistryAfterAll(RegistryAfter(reg, Head(cs)), Tail(cs))

\* The operations that took effect at the time of their call.
AppliedNow(cs) == SelectSeq(cs, LAMBDA c : c.op = "deleteTurtle" /\ c.status # "threw")

-----------------------------------------------------------------------------
(* statusHandler as steps *)

\* caught: the catch block was entered; warned: log.warn was called.
Invocation(message, topic, m, state, errorLogged, caught, warned, awaits) ==
    [message |-> message, topic |-> topic, matched |-> m.matched, turtleId |-> m.id,
     state |-> state, errorLogged |-> errorLogged, caught |-> caught,
     warned |-> warned, awaits |-> awaits]

\* statusHandler(message, topic) from its call to its first suspension point
\* or its return.  delOut, getOut and updOut are what deleteTurtle, getTurtle
\* and the synchronous part of updateStatus do when they are called.
statusHandler(message, topic, delOut, getOut, updOut) ==
    LET n == Len(invocations) + 1
        m == TopicMatch(topic)
    IN  IF ~m.matched
        THEN /\ invocations' = Append(invocations,
                    Invocation(message, topic, m, "resolved", TRUE, FALSE, FALSE, 0))
             /\ UNCHANGED <<calls, applied, registry>>
        ELSE LET r == TryBlock(message, m.id, n, Len(calls), delOut, getOut, updOut)
                 st == IF r.thrown THEN CatchOutcome(r.err)
                       ELSE IF r.awaits > 0 THEN "awaiting" ELSE "resolved"
             IN  /\ invocations' = Append(invocations,
                        Invocation(message, topic, m, st, FALSE, r.thrown,
                                   r.thrown /\ st = "resolved", r.awaits))
                 /\ calls' = calls \o r.calls
                 /\ applied' = applied \o AppliedNow(r.calls)
                 /\ registry' = RegistryAfterAll(registry, r.calls)

\* What the registry may do during a call: the outcomes of deleteTurtle, of
\* getTurtle and of the synchronous part of updateStatus.  Only an operation
\* the call reaches has an outcome to choose.
Behaviours(message, topic) ==
    IF ~TopicMatch(topic).matched THEN {<<Returns, Returns, Returns>>}
    ELSE IF IsNull(message) THEN {<<o, Returns, Returns>> : o \in Outcomes}
    ELSE IF SanitizeThrows(message) THEN {<<Returns, Returns, Returns>>}
    ELSE {<<Returns, o, Returns>> : o \in Outcomes}
            \cup {<<Returns, Returns, o>> : o \in Outcomes}

\* A direct call of statusHandler, with any string topic.
Handle(message, topic) ==
    /\ budget > 0
    /\ budget' = budget - 1
    /\ \E b \in Behaviours(message, topic) : statusHandler(message, topic, b[1], b[2], b[3])
    /\ UNCHANGED <<lifecycleVars, sequential>>

\* The invocations suspended on a call for the turtle of this topic.
Busy(topic) ==
    {i \in 1..Len(invocations) :
        /\ invocations[i].state = "awaiting"
        /\ invocations[i].turtleId = TopicMatch(topic).id}

\* The transport calls the subscribed handler for a message on a topic that
\* matches the subscription.
Deliver(message, topic) ==
    /\ subscribeP = "resolved"
    /\ ~offlineFired
    /\ MatchesSubscription(topic)
    /\ sequential => Busy(topic) = {}
    /\ Handle(message, topic)

\* The promise of call k settles.  A fulfilled update takes effect; the
\* invocation suspended on the call resumes after its await and runs to its end.
Settle(k, out) ==
    LET c == calls[k]
        waiting == {i \in 1..Len(invocations) :
                        invocations[i].state = "awaiting" /\ invocations[i].awaits = k}
    IN  /\ c.status = "pending"
        /\ c.op = "deleteTurtle" => out.ok
        /\ calls' = [calls EXCEPT ![k].status = IF ~out.ok THEN "rejected"
                                                ELSE IF c.op = "updateStatus"
                                                THEN "fulfilled" ELSE "returned",
                                  ![k].err = out.err]
        /\ IF out.ok /\ c.op = "updateStatus"
           THEN /\ applied' = Append(applied, calls'[k])
                /\ registry' = IF c.id \in DOMAIN registry
                               THEN With(registry, c.id, c.arg) ELSE registry
           ELSE UNCHANGED <<applied, registry>>
        /\ invocations' = [i \in 1..Len(invocations) |->
                IF i \in waiting
                THEN LET st == IF out.ok THEN "resolved" ELSE CatchOutcome(out.err)
                     IN  [invocations[i] EXCEPT !.state = st,
                                                !.caught = ~out.ok,
                                                !.warned = ~out.ok /\ st = "resolved"]
                ELSE invocations[i]]
        /\ UNCHANGED <<lifecycleVars, sequential, budget>>

-----------------------------------------------------------------------------
(* run() *)

\* Mutation: connect is not awaited.
CanSubscribeEarly == connectP \in {"pending", "resolved"}

\* Line 40: run() goes on to subscribe once connect has resolved.
CanSubscribe == connectP = "resolved"

\* Line 45: run() goes on once onOffline has resolved.
CanFinish == offlineFired

\* run() is called: line 40 calls connect.
Run ==
    /\ runP = "notcalled"
    /\ runP' = "connecting"
    /\ connectP' = "pending"
    /\ UNCHANGED <<subscribeP, offlineFired, sequential, handlerVars>>

ConnectSettles(ok) ==
    /\ connectP = "pending"
    /\ connectP' = IF ok THEN "resolved" ELSE "rejected"
    /\ UNCHANGED <<subscribeP, offlineFired, runP, sequential, handlerVars>>

\* Line 43: subscribe with the bound handler.
RunSubscribe ==
    /\ runP = "connecting"
    /\ CanSubscribe
    /\ runP' = "subscribing"
    /\ subscribeP' = "pending"
    /\ UNCHANGED <<connectP, offlineFired, sequential, handlerVars>>

SubscribeSettles(ok) ==
    /\ subscribeP = "pending"
    /\ subscribeP' = IF ok THEN "resolved" ELSE "rejected"
    /\ UNCHANGED <<connectP, offlineFired, runP, sequential, handlerVars>>

\* An awaited connect or subscribe rejected: run() rejects.
RunRejects ==
    /\ \/ runP = "connecting" /\ connectP = "rejected"
       \/ runP = "subscribing" /\ subscribeP = "rejected"
    /\ runP' = "rejected"
    /\ UNCHANGED <<connectP, subscribeP, offlineFired, sequential, handlerVars>>

\* Line 45: await this.client.onOffline.
RunAwaitOffline ==
    /\ runP = "subscribing"
    /\ subscribeP = "resolved"
    /\ runP' = "waiting"
    /\ UNCHANGED <<connectP, subscribeP, offlineFired, sequential, handlerVars>>

\* Line 46: run() resolves.
RunResolves ==
    /\ runP = "waiting"
    /\ CanFinish
    /\ runP' = "resolved"
    /\ UNCHANGED <<connectP, subscribeP, offlineFired, sequential, handlerVars>>

\* The connection goes offline: the peer, the network, or a disconnect.
Offline ==
    /\ connectP = "resolved"
    /\ ~offlineFired
    /\ offlineFired' = TRUE
    /\ UNCHANGED <<connectP, subscribeP, runP, sequential, handlerVars>>

-----------------------------------------------------------------------------
(* Specifications *)

InitCommon ==
    /\ connectP = "none"
    /\ subscribeP = "none"
    /\ offlineFired = FALSE
    /\ runP = "notcalled"
    /\ invocations = <<>>
    /\ calls = <<>>
    /\ applied = <<>>
    /\ registry = <<>>

\* A constructed client; the transport either awaits each handler or not.
Init ==
    /\ InitCommon
    /\ sequential \in BOOLEAN
    /\ budget = MaxMsgs

Next ==
    \/ Run
    \/ \E ok \in BOOLEAN : ConnectSettles(ok)
    \/ RunSubscribe
    \/ \E ok \in BOOLEAN : SubscribeSettles(ok)
    \/ RunRejects
    \/ RunAwaitOffline
    \/ RunResolves
    \/ Offline
    \/ \E message \in CorePayloads, id \in DeviceIds : Deliver(message, StatusTopic(id))
    \/ \E k \in 1..Len(calls), out \in Outcomes : Settle(k, out)

Spec == Init /\ [][Next]_vars

\* One direct call of statusHandler on a constructed client.
InitHandler ==
    /\ InitCommon
    /\ sequential = FALSE
    /\ budget = 1

NextHandler ==
    \/ \E in \in HandlerInputs : Handle(in[1], in[2])
    \/ \E k \in 1..Len(calls), out \in Outcomes : Settle(k, out)

SpecHandler == InitHandler /\ [][NextHandler]_vars

-----------------------------------------------------------------------------
(* Vocabulary of the properties *)

Invocations == 1..Len(invocations)

\* The registry calls made by invocation i, in call order.
CallsOf(i) == SelectSeq(calls, LAMBDA c : c.inv = i)

Ops(i) == [k \in 1..Len(CallsOf(i)) |-> CallsOf(i)[k].op]

SlashesOf(topic) == {k \in 1..Len(topic) : topic[k] = "/"}

Last(S) == CHOOSE k \in S : \A l \in S : l <= k

\* The topic ends with the literal "/status".
EndsWithStatus(topic) ==
    /\ Len(topic) >= Len(StatusSuffix)
    /\ SubSeq(topic, Len(topic) - Len(StatusSuffix) + 1, Len(topic)) = StatusSuffix

\* <base>/<id>/status with a non-empty base and a non-empty id free of "/".
HasStatusShape(topic) ==
    /\ EndsWithStatus(topic)
    /\ Cardinality(SlashesOf(topic)) >= 2
    /\ LET last == Last(SlashesOf(topic))
           prev == Last(SlashesOf(topic) \ {last})
       IN  prev > 1 /\ prev + 1 < last

\* The segment between the last two "/" of a topic of that shape.
IdSegment(topic) ==
    LET last == Last(SlashesOf(topic))
        prev == Last(SlashesOf(topic) \ {last})
    IN  SubSeq(topic, prev + 1, last - 1)

\* <baseTopic>/<id>/status for the configured base topic.
IsSubscribedShape(topic) == HasStatusShape(topic) /\ topic = StatusTopic(IdSegment(topic))

\* The topic ends with <segment>/status for a non-empty segment free of "/".
EndsWithSegmentStatus(topic) ==
    /\ EndsWithStatus(topic)
    /\ Len(topic) > Len(StatusSuffix)
    /\ topic[Len(topic) - Len(StatusSuffix)] # "/"

-----------------------------------------------------------------------------
(* Properties *)

\* C1: a call statusHandler(null, topic) with a status topic for identifier X
\* calls deleteTurtle(X) exactly once and makes no other registry call.
C1_NullDeletesOnce ==
    \A i \in Invocations :
        (invocations[i].message = Null /\ HasStatusShape(invocations[i].topic)) =>
            /\ Ops(i) = <<"deleteTurtle">>
            /\ CallsOf(i)[1].id = IdSegment(invocations[i].topic)

C1_Witness ==
    \E i \in Invocations :
        /\ invocations[i].message = Null
        /\ IsSubscribedShape(invocations[i].topic)
        /\ Ops(i) = <<"deleteTurtle">>
        /\ invocations[i].state = "resolved"

C3_IdIsLastSegment ==
    \A i \in Invocations :
        HasStatusShape(invocations[i].topic) =>
            /\ invocations[i].matched
            /\ invocations[i].turtleId = IdSegment(invocations[i].topic)
            /\ \A k \in 1..Len(CallsOf(i)) :
                    CallsOf(i)[k].id = IdSegment(invocations[i].topic)

C3_Witness ==
    \E i \in Invocations :
        /\ HasStatusShape(invocations[i].topic)
        /\ Len(IdSegment(invocations[i].topic)) > 1
        /\ CallsOf(i) # <<>>
        /\ CallsOf(i)[1].id = IdSegment(invocations[i].topic)

\* C4 as stated: whatever the registry throws or rejects with, and whatever
\* the payload, the promise of statusHandler is never rejected.
C4_NeverRejects ==
    \A i \in Invocations : invocations[i].state # "rejected"

\* C5: the inventory passed to updateStatus is, for online true, the original
\* one with every array slot replaced by null and every other slot kept, in
\* the same order; for online false it is the original inventory.
C5_SanitizedInventory ==
    \A k \in 1..Len(calls) :
        calls[k].op = "updateStatus" =>
            LET orig == invocations[calls[k].inv].message
                sent == calls[k].arg.inventory
            IN  /\ orig.online = "true" =>
                    /\ sent.kind = "array"
                    /\ Len(sent.items) = Len(orig.inventory.items)
                    /\ \A n \in 1..Len(sent.items) :
                            sent.items[n] = IF IsArray(orig.inventory.items[n])
                                            THEN "null" ELSE orig.inventory.items[n]
                /\ orig.online = "false" => sent = orig.inventory

C5_Witness ==
    \E k \in 1..Len(calls) :
        /\ calls[k].op = "updateStatus"
        /\ invocations[calls[k].inv].message.online = "true"
        /\ invocations[calls[k].inv].message.inventory.items = <<"[1,2]", "{axe}">>
        /\ calls[k].arg.inventory.items = <<"null", "{axe}">>
        /\ calls[k].status = "fulfilled"

\* The registry mutations (deletes and status updates) invocation i asked for.
Mutations(i) == SelectSeq(CallsOf(i), LAMBDA c : c.op \in {"deleteTurtle", "updateStatus"})

\* The payloads on which lines 83-85 throw before any registry call.
PayloadThrows(m) ==
    \/ m = Undefined
    \/ m.online \in {"true", "1"} /\ m.inventory.kind # "array"

\* A payload with online: boolean and inventory: sequence<slot>.
WellFormed(m) ==
    m.kind = "object" /\ m.online \in {"true", "false"} /\ m.inventory.kind = "array"

\* C6 as stated: no mutation for a topic without identifier, exactly one for
\* an event on a status topic: a delete for null, an update otherwise.
C6_AsStated ==
    \A i \in Invocations :
        /\ ~EndsWithSegmentStatus(invocations[i].topic) => Mutations(i) = <<>>
        /\ HasStatusShape(invocations[i].topic) =>
                /\ Len(Mutations(i)) = 1
                /\ Mutations(i)[1].op = IF invocations[i].message = Null
                                        THEN "deleteTurtle" ELSE "updateStatus"

\* C6 amended: a call asks for at most one mutation and repeats no call: none
\* for a topic without identifier; one deleteTurtle for null; for another
\* payload one updateStatus when lines 83-85 do not throw and getTurtle
\* returns, and none otherwise.
C6_AtMostOneMutation ==
    \A i \in Invocations :
        LET inv == invocations[i]
        IN  /\ Len(Mutations(i)) <= 1
            /\ \A a, b \in 1..Len(CallsOf(i)) : a # b => CallsOf(i)[a].op # CallsOf(i)[b].op
            /\ ~EndsWithSegmentStatus(inv.topic) => Mutations(i) = <<>>
            /\ (EndsWithSegmentStatus(inv.topic) /\ inv.message = Null) =>
                    Ops(i) = <<"deleteTurtle">>
            /\ (EndsWithSegmentStatus(inv.topic) /\ inv.message # Null) =>
                    IF PayloadThrows(inv.message) THEN CallsOf(i) = <<>>
                    ELSE /\ Ops(i)[1] = "getTurtle"
                         /\ IF CallsOf(i)[1].status = "returned"
                            THEN Ops(i) = <<"getTurtle", "updateStatus">>
                            ELSE Ops(i) = <<"getTurtle">>

C6_Witness ==
    \E i \in Invocations :
        /\ HasStatusShape(invocations[i].topic)
        /\ invocations[i].message # Null
        /\ Ops(i) = <<"getTurtle">>
        /\ invocations[i].warned
        /\ Mutations(i) = <<>>

-----------------------------------------------------------------------------
(* Order of the registry operations *)

TurtleIds == {invocations[i].turtleId : i \in Invocations}

For(d) == {i \in Invocations : invocations[i].turtleId = d}

Settled(d) == \A i \in For(d) : invocations[i].state # "awaiting"

\* The registry holds for d what message m asks for.
Reflects(d, m) ==
    IF m = Null THEN d \notin DOMAIN registry
    ELSE /\ d \in DOMAIN registry
         /\ registry[d].kind = "object"
         /\ registry[d].online = m.online

\* The mutation of invocation i took effect.
Succeeded(i) ==
    /\ Len(Mutations(i)) = 1
    /\ Mutations(i)[1].status \in {"returned", "fulfilled"}

\* The operations on one turtle took effect in the order of the invocations.
AppliedInOrder ==
    \A a, b \in 1..Len(applied) :
        (a < b /\ applied[a].id = applied[b].id) => applied[a].inv < applied[b].inv

\* C8 as stated: with sequential invocations per turtle, the operations are
\* applied in delivery order and the final state of the registry for the
\* turtle reflects the last delivered message.
C8_AsStated ==
    sequential =>
        /\ AppliedInOrder
        /\ \A d \in TurtleIds :
                Settled(d) => Reflects(d, invocations[Last(For(d))].message)

\* C8 amended: with sequential invocations per turtle, the operations are
\* applied in delivery order, each before the next invocation for the turtle
\* starts, and the final state reflects the last delivered message whenever
\* the registry operation of that message succeeded.
C8_SequentialOrder ==
    sequential =>
        /\ AppliedInOrder
        /\ \A k \in 1..Len(calls) :
                calls[k].status = "pending" =>
                    calls[k].inv = Last(For(calls[k].id))
        /\ \A d \in TurtleIds :
                (Settled(d) /\ Succeeded(Last(For(d)))) =>
                    Reflects(d, invocations[Last(For(d))].message)

\* An update and then a delete for one turtle, handled one after the other.
C8_Witness ==
    /\ sequential
    /\ \E d \in TurtleIds :
        /\ Cardinality(For(d)) = 2
        /\ Settled(d)
        /\ \A i \in For(d) : Succeeded(i)
        /\ Len(applied) = 2
        /\ applied[1].op = "updateStatus" /\ applied[1].id = d
        /\ applied[2].op = "deleteTurtle" /\ applied[2].id = d
        /\ applied[1].inv < applied[2].inv
        /\ d \notin DOMAIN registry

\* C9: run() subscribes only once connect has resolved, resolves only after
\* the offline signal has fired, and rejects only when connect or subscribe
\* rejected: no failure of a handler ends run().
C9_RunLifecycle ==
    /\ subscribeP # "none" => connectP = "resolved"
    /\ runP \in {"subscribing", "waiting", "resolved"} => connectP = "resolved"
    /\ runP = "resolved" => offlineFired /\ subscribeP = "resolved"
    /\ runP = "rejected" => connectP = "rejected" \/ subscribeP = "rejected"
    /\ (invocations # <<>> /\ ~offlineFired /\ connectP = "resolved"
            /\ subscribeP = "resolved") => runP \in {"subscribing", "waiting"}

C9_Witness ==
    /\ runP = "resolved"
    /\ offlineFired
    /\ \E i \in Invocations : invocations[i].warned
    /\ \E i \in Invocations : invocations[i].state = "rejected"

\* C10: a handler has made all its registry calls when it first suspends, so
\* the calls start in the order of the invocations, and only the settling of
\* a pending updateStatus is left to interleave with later invocations.
C10_CallsBeforeSuspension ==
    /\ \A k, l \in 1..Len(calls) : k < l => calls[k].inv <= calls[l].inv
    /\ \A k \in 1..Len(calls) : calls[k].status = "pending" => calls[k].op = "updateStatus"
    /\ \A i \in Invocations :
            invocations[i].state = "awaiting" =>
                /\ Ops(i) = <<"getTurtle", "updateStatus">>
                /\ calls[invocations[i].awaits] = CallsOf(i)[2]
                /\ CallsOf(i)[2].status = "pending"
    /\ \A i \in Invocations :
            invocations[i].state # "awaiting" =>
                \A k \in 1..Len(CallsOf(i)) : CallsOf(i)[k].status # "pending"

\* A delete for a turtle took effect while an earlier update for it is pending.
C10_Witness ==
    \E k, l \in 1..Len(calls) :
        /\ k < l
        /\ calls[k].id = calls[l].id
        /\ calls[k].op = "updateStatus" /\ calls[k].status = "pending"
        /\ calls[l].op = "deleteTurtle" /\ calls[l].status = "returned"
        /\ calls[l].inv > calls[k].inv
        /\ calls[k].id \notin DOMAIN registry

====
